---- MODULE Spec2Model ----
(***************************************************************************)
(* Lua Maker (src/main.py): the metadata extraction and correlation core.  *)
(*                                                                         *)
(* Text is modelled as a sequence of lexical tokens.  A token is a record  *)
(* [k, s]: k = "q" is a double-quoted string whose content is s, k = "{"   *)
(* and k = "}" are the brace characters, k = "ws" is a run of whitespace.  *)
(* Quoted contents hold no quote, brace or whitespace character, so the    *)
(* character-level searches of the program (str.find, re.search) can only  *)
(* match on token boundaries and are computed exactly on tokens.           *)
(***************************************************************************)
EXTENDS Integers, Sequences, FiniteSets, TLC

VARIABLES pc, runs, appid, cfg_text, ai, depots, keys, todo, script, luaOk,
          err, raw, did, out

vars == <<pc, runs, appid, cfg_text, ai, depots, keys, todo, script, luaOk,
          err, raw, did, out>>

(***************************************************************************)
(* Tokens                                                                  *)
(***************************************************************************)
Q(s) == [k |-> "q", s |-> s]
LB == [k |-> "{", s |-> ""]
RB == [k |-> "}", s |-> ""]
WS == [k |-> "ws", s |-> ""]
DK == Q("DecryptionKey")

\* Sequences over S of length at most n.
SeqsUpTo(S, n) == UNION {[1..m -> S] : m \in 0..n}

\* Least element of a non-empty set of integers.
Min(S) == CHOOSE x \in S : \A y \in S : x <= y

\* t[from..to] as a sequence (empty when to < from).
Slice(t, from, to) == [i \in 1..(IF to < from THEN 0 ELSE to - from + 1) |-> t[from + i - 1]]

\* \s* : the position after the longest run of whitespace starting at i.
SkipWs(t, i) ==
    LET stop == {j \in i..Len(t) : t[j].k # "ws"}
    IN  IF stop = {} THEN Len(t) + 1 ELSE Min(stop)

(***************************************************************************)
(* find_decryption_key (src/main.py 291-296)                               *)
(***************************************************************************)
\* re.search(rf'"{did}"\s*\{{(.*?)\}}', cfg, re.DOTALL): the leftmost position
\* of the quoted id at which the id, optional whitespace, an opening brace and
\* some later closing brace follow one another; the lazy group ends at the
\* first closing brace after the opening one.  Depot ids are digit strings, so
\* the id put into the pattern unescaped matches itself only.
BlockMatchAt(cfg, d, i) ==
    /\ cfg[i] = Q(d)
    /\ LET o == SkipWs(cfg, i + 1)
       IN  /\ o <= Len(cfg)
           /\ cfg[o] = LB
           /\ \E c \in (o + 1)..Len(cfg) : cfg[c] = RB

\* The greedy pattern (.*) in place of (.*?): the group runs to the last brace.
SearchBlockGreedy(cfg, d) ==
    LET starts == {i \in 1..Len(cfg) : BlockMatchAt(cfg, d, i)}
    IN  IF starts = {} THEN [found |-> FALSE, at |-> 0, open |-> 0, close |-> 0]
        ELSE LET i == Min(starts)
                 o == SkipWs(cfg, i + 1)
                 c == CHOOSE e \in (o + 1)..Len(cfg) :
                          cfg[e] = RB /\ \A f \in (e + 1)..Len(cfg) : cfg[f] # RB
             IN  [found |-> TRUE, at |-> i, open |-> o, close |-> c]

SearchBlock(cfg, d) ==
    LET starts == {i \in 1..Len(cfg) : BlockMatchAt(cfg, d, i)}
    IN  IF starts = {} THEN [found |-> FALSE, at |-> 0, open |-> 0, close |-> 0]
        ELSE LET i == Min(starts)
                 o == SkipWs(cfg, i + 1)
                 c == Min({e \in (o + 1)..Len(cfg) : cfg[e] = RB})
             IN  [found |-> TRUE, at |-> i, open |-> o, close |-> c]

\* re.search(r'"DecryptionKey"\s*"([^"]+)"', group): the leftmost quoted
\* DecryptionKey followed, after optional whitespace, by a quoted string with
\* at least one character.
\* The pattern "([^"]*)" in place of "([^"]+)": an empty value matches.
ValueOkOrEmpty(tok) == tok.k = "q"

ValueOk(tok) == tok.k = "q" /\ tok.s # ""

KeyMatchAt(g, p) ==
    /\ g[p] = DK
    /\ LET v == SkipWs(g, p + 1)
       IN  v <= Len(g) /\ ValueOk(g[v])

SearchKey(g) ==
    LET starts == {p \in 1..Len(g) : KeyMatchAt(g, p)}
    IN  IF starts = {} THEN [found |-> FALSE, at |-> 0, value |-> 0]
        ELSE LET p == Min(starts)
             IN  [found |-> TRUE, at |-> p, value |-> SkipWs(g, p + 1)]

\* The outcome of find_decryption_key: the key, or the ValueError raised.
\* pos is the position in cfg of the token the key was read from.
find_decryption_key(cfg, d) ==
    LET m == SearchBlock(cfg, d)
    IN  IF ~m.found
        THEN [status |-> "DepotMissing", key |-> "", pos |-> 0]
        ELSE LET g  == Slice(cfg, m.open + 1, m.close - 1)
                 km == SearchKey(g)
             IN  IF ~km.found
                 THEN [status |-> "KeyMissing", key |-> "", pos |-> 0]
                 ELSE [status |-> "ok", key |-> g[km.value].s,
                       pos |-> m.open + km.value]

(***************************************************************************)
(* Record isolation in fetch_app_info (src/main.py 168-185)                *)
(***************************************************************************)
\* raw.find(pattern, from): the least position >= from holding the token, or
\* 0 for Python's -1.
Find(t, tok, from) ==
    LET hits == {i \in from..Len(t) : t[i] = tok}
    IN  IF hits = {} THEN 0 ELSE Min(hits)

\* The positions range(start, len(raw)) visits.  When no '{' follows the
\* identifier, start is -1: Python reads raw[-1], the last character, and then
\* goes on from raw[0].
ScanOrder(t, start) ==
    IF start = 0
    THEN <<Len(t)>> \o [i \in 1..Len(t) |-> i]
    ELSE [i \in 1..(Len(t) - start + 1) |-> start + i - 1]

\* The loop of lines 176-182: the position at which brace_count returns to
\* zero on a '}', or 0 for end = None.
RECURSIVE ScanBraces(_, _, _, _)
ScanBraces(t, ord, n, brace_count) ==
    IF n > Len(ord) THEN 0
    ELSE LET ch == t[ord[n]].k
             c2 == IF ch = "{" THEN brace_count + 1
                   ELSE IF ch = "}" THEN brace_count - 1
                   ELSE brace_count
         IN  IF ch = "}" /\ c2 = 0 THEN ord[n]
             ELSE ScanBraces(t, ord, n + 1, c2)

\* The span raw[key_index:end+1], or the ValueError raised.
isolate(t, id) ==
    LET key_index == Find(t, Q(id), 1)
    IN  IF key_index = 0
        THEN [status |-> "NoSection", span |-> <<>>]
        ELSE LET start == Find(t, LB, key_index)
                 end   == ScanBraces(t, ScanOrder(t, start), 1, 0)
             IN  IF end = 0
                 THEN [status |-> "Unmatched", span |-> <<>>]
                 ELSE [status |-> "ok", span |-> Slice(t, key_index, end)]

(***************************************************************************)
(* extract_depots (src/main.py 272-288)                                    *)
(*                                                                         *)
(* The parsed record ai is [depots, children]: depots says what            *)
(* ai.get('depots') is ("map", "scalar" or "absent") and children lists    *)
(* the items of that map in insertion order as [id, info].  info describes *)
(* the child along the path the program reads: kind of the child itself,   *)
(* of its 'manifests' and of manifests 'public' ("map", "scalar" or        *)
(* "absent"), gidKind and gid for public 'gid' ("str" with its text, "map" *)
(* or "absent"), and whether the child has 'dlcappid' and                  *)
(* 'config.language'.                                                      *)
(***************************************************************************)
\* The loop of lines 278-284.  info.get('manifests', {}).get('public') raises
\* AttributeError when 'manifests' is a string.
RECURSIVE ExtractLoop(_, _, _)
ExtractLoop(children, n, result) ==
    IF n > Len(children) THEN [status |-> "ok", result |-> result]
    ELSE LET c == children[n]
             info == c.info
         IN  IF info.kind # "map" THEN ExtractLoop(children, n + 1, result)
             ELSE IF info.manifests = "scalar"
             THEN [status |-> "AttributeError", result |-> <<>>]
             ELSE IF info.manifests = "absent" \/ info.public # "map"
             THEN ExtractLoop(children, n + 1, result)
             ELSE IF info.gidKind = "str" /\ info.gid # ""
             THEN ExtractLoop(children, n + 1,
                              Append(result, [id |-> c.id, gid |-> info.gid]))
             ELSE ExtractLoop(children, n + 1, result)

\* The mapping extract_depots returns, as the sequence of its items in
\* insertion order, or the way it ends the process.
extract_depots(a) ==
    IF a.depots # "map" THEN [status |-> "NoDepots", result |-> <<>>]
    ELSE LET r == ExtractLoop(a.children, 1, <<>>)
         IN  IF r.status = "ok" /\ r.result = <<>>
             THEN [status |-> "NoValidDepots", result |-> <<>>]
             ELSE r

(***************************************************************************)
(* write_lua (src/main.py 312-322)                                         *)
(***************************************************************************)
\* The three statement forms, one record per line written.
AppLine(a) == [stmt |-> "addappid", args |-> <<a>>]
KeyLine(d, key) == [stmt |-> "addappid", args |-> <<d, "1", key>>]
ManifestLine(d, g) == [stmt |-> "setManifestid", args |-> <<d, g>>]

\* One pass: each depot's key line directly followed by its setManifestid line.
write_lua_one_pass(a, ds, ks, io) ==
    IF ~io THEN [ok |-> FALSE, lines |-> <<>>]
    ELSE [ok |-> TRUE,
          lines |-> <<AppLine(a)>> \o
              [j \in 1..(2 * Len(ds)) |->
                  IF j % 2 = 1
                  THEN KeyLine(ds[(j + 1) \div 2].id, ks[ds[(j + 1) \div 2].id])
                  ELSE ManifestLine(ds[j \div 2].id, ds[j \div 2].gid)]]

\* The lines written and the value returned.  io is whether the file can be
\* opened and written; keys[d] raises KeyError for a depot with no key, which
\* the bare except turns into False after the lines written so far.
write_lua(a, ds, ks, io) ==
    IF ~io THEN [ok |-> FALSE, lines |-> <<>>]
    ELSE LET n == Len(ds)
             missing == {k \in 1..n : ds[k].id \notin DOMAIN ks}
             m == IF missing = {} THEN n ELSE Min(missing) - 1
             pass1 == [k \in 1..m |-> KeyLine(ds[k].id, ks[ds[k].id])]
             pass2 == [k \in 1..n |-> ManifestLine(ds[k].id, ds[k].gid)]
         IN  IF missing # {}
             THEN [ok |-> FALSE, lines |-> <<AppLine(a)>> \o pass1]
             ELSE [ok |-> TRUE, lines |-> <<AppLine(a)>> \o pass1 \o pass2]

(***************************************************************************)
(* The key loop of main (src/main.py 360-365)                              *)
(***************************************************************************)
EmptyMap == [x \in {} |-> ""]

\* keys is not emptied: the mapping of the run before stays.
NewKeysStale(old) == old

\* keys = {}
NewKeys(old) == EmptyMap

\* keys[d] = ...
PutKey(ks, d, key) == (d :> key) @@ ks

\* The depot is not removed.
PopDepotKeeps(ds, d) == ds

\* depots.pop(d)
PopDepot(ds, d) == SelectSeq(ds, LAMBDA e : e.id # d)

\* list(depots)
DepotIds(ds) == [k \in 1..Len(ds) |-> ds[k].id]

(***************************************************************************)
(* Bounds and input sets                                                   *)
(***************************************************************************)
MaxCfgLen == 5

MaxRawLen == 6

MaxChildren == 2

MaxEmitDepots == 3

AppIds == {"42", "43"}

RawTokens == {Q("42"), Q("43"), LB, RB, WS}

\* Depot identifiers and the key each has in the trust-store.
IdNames == <<"1", "2", "3", "4", "5">>

KeyNames == <<"KA", "KB", "KC", "KD", "KE">>

\* The depots a run's inputs speak of, as indices into IdNames.
RunIds == {1, 2}

CfgTokens == {Q("1"), Q("2"), DK, Q(""), LB, RB, WS}

\* Trust-store texts: any token string, alone or enclosed in a depot's block.
Enclose(d, t) == <<Q(d), LB>> \o t \o <<RB>>

CfgTexts ==
    LET body == SeqsUpTo(CfgTokens, MaxCfgLen)
    IN  body \cup {Enclose("1", t) : t \in body} \cup {Enclose("2", t) : t \in body}

\* Children of the 'depots' map.
Info(kind, manifests, public, gidKind, gid, dlc, lang) ==
    [kind |-> kind, manifests |-> manifests, public |-> public,
     gidKind |-> gidKind, gid |-> gid, dlcappid |-> dlc, language |-> lang]

\* Every child shape, each written once: what lies below a node that is not a
\* map is left at "absent".
Infos ==
    {Info("scalar", "absent", "absent", "absent", "", FALSE, FALSE)}
    \cup {Info("map", m, "absent", "absent", "", dl, la) :
            m \in {"absent", "scalar"}, dl \in BOOLEAN, la \in BOOLEAN}
    \cup {Info("map", "map", pb, "absent", "", dl, la) :
            pb \in {"absent", "scalar"}, dl \in BOOLEAN, la \in BOOLEAN}
    \cup {Info("map", "map", "map", gk, "", dl, la) :
            gk \in {"absent", "map", "str"}, dl \in BOOLEAN, la \in BOOLEAN}
    \cup {Info("map", "map", "map", "str", g, dl, la) :
            g \in {"555", "777"}, dl \in BOOLEAN, la \in BOOLEAN}

\* The children lists with distinct ids (a map has each key once).
Distinct(ids) == \A i, j \in 1..Len(ids) : i # j => ids[i] # ids[j]

ChildLists(ids, infos, n) ==
    {c \in SeqsUpTo([id : ids, info : infos], n) :
        Distinct([k \in 1..Len(c) |-> c[k].id])}

FirstIds(n) == {IdNames[i] : i \in 1..n}

Records(ids, infos, n) ==
    {[depots |-> "map", children |-> c] : c \in ChildLists(ids, infos, n)}
    \cup {[depots |-> k, children |-> <<>>] : k \in {"scalar", "absent"}}

\* The records a run is given: a mainline depot, an add-on depot, a
\* language-restricted depot, a depot with an empty gid and one whose
\* 'manifests' is a string; children in ascending id order.
RunInfos ==
    {Info("map", "map", "map", "str", "555", FALSE, FALSE),
     Info("map", "map", "map", "str", "666", TRUE, FALSE),
     Info("map", "map", "map", "str", "777", FALSE, TRUE),
     Info("map", "map", "map", "str", "", FALSE, FALSE),
     Info("map", "scalar", "absent", "absent", "", FALSE, FALSE)}

RECURSIVE Present(_, _)
Present(sel, i) ==
    IF i > Len(sel) THEN <<>>
    ELSE IF sel[i] = <<>> THEN Present(sel, i + 1)
    ELSE <<[id |-> IdNames[i], info |-> sel[i][1]]>> \o Present(sel, i + 1)

RunRecords ==
    {[depots |-> "map", children |-> Present(sel, 1)] :
        sel \in [RunIds -> {<<>>} \cup {<<x>> : x \in RunInfos}]}
    \cup {[depots |-> "absent", children |-> <<>>]}

\* The trust-store texts a run is given: for each depot no block, a block
\* without a key, a block whose key is empty, or a block with the depot's key.
Block(i, what) ==
    CASE what = "absent" -> <<>>
      [] what = "nokey"  -> <<Q(IdNames[i]), WS, LB, WS, RB, WS>>
      [] what = "empty"  -> <<Q(IdNames[i]), WS, LB, DK, WS, Q(""), RB, WS>>
      [] what = "key"    -> <<Q(IdNames[i]), WS, LB, DK, WS, Q(KeyNames[i]), RB, WS>>

RECURSIVE Blocks(_, _)
Blocks(ch, i) ==
    IF i > Len(ch) THEN <<>> ELSE Block(i, ch[i]) \o Blocks(ch, i + 1)

RunCfgTexts ==
    {Blocks(ch, 1) : ch \in [RunIds -> {"absent", "nokey", "empty", "key"}]}

\* The final mappings the emitter is given on its own.
EmitDepots ==
    {ds \in SeqsUpTo([id : FirstIds(MaxEmitDepots), gid : {"555", "777"}], MaxEmitDepots) :
        Distinct([k \in 1..Len(ds) |-> ds[k].id])}

NoOut == [status |-> "none"]

Idle ==
    /\ runs = 0 /\ appid = "" /\ cfg_text = <<>> /\ ai = <<>> /\ depots = <<>>
    /\ keys = <<>> /\ todo = <<>> /\ script = <<>> /\ luaOk = FALSE
    /\ err = "none"

(***************************************************************************)
(* The key resolver on arbitrary trust-store text                          *)
(***************************************************************************)
InitKey ==
    /\ Idle
    /\ pc = "input"
    /\ raw \in CfgTexts
    /\ did \in {"1", "2"}
    /\ out = NoOut

ResolveKey ==
    /\ pc = "input"
    /\ out' = find_decryption_key(raw, did)
    /\ pc' = "returned"
    /\ UNCHANGED <<runs, appid, cfg_text, ai, depots, keys, todo, script,
                   luaOk, err, raw, did>>

NextKey == ResolveKey

SpecKey == InitKey /\ [][NextKey]_vars

(***************************************************************************)
(* Record isolation on arbitrary remote text                               *)
(***************************************************************************)
InitIsolate ==
    /\ Idle
    /\ pc = "input"
    /\ raw \in SeqsUpTo(RawTokens, MaxRawLen)
    /\ did \in AppIds
    /\ out = NoOut

Isolate ==
    /\ pc = "input"
    /\ out' = isolate(raw, did)
    /\ pc' = "returned"
    /\ UNCHANGED <<runs, appid, cfg_text, ai, depots, keys, todo, script,
                   luaOk, err, raw, did>>

NextIsolate == Isolate

SpecIsolate == InitIsolate /\ [][NextIsolate]_vars

(***************************************************************************)
(* The depot extractor on arbitrary parsed records                         *)
(***************************************************************************)
InitExtract ==
    /\ Idle
    /\ pc = "input"
    /\ raw \in Records(FirstIds(MaxChildren), Infos, MaxChildren)
    /\ did = ""
    /\ out = NoOut

Extract ==
    /\ pc = "input"
    /\ out' = extract_depots(raw)
    /\ pc' = "returned"
    /\ UNCHANGED <<runs, appid, cfg_text, ai, depots, keys, todo, script,
                   luaOk, err, raw, did>>

NextExtract == Extract

SpecExtract == InitExtract /\ [][NextExtract]_vars

(***************************************************************************)
(* The script emitter on arbitrary final mappings                          *)
(***************************************************************************)
InitEmit ==
    /\ pc = "input"
    /\ runs = 0 /\ cfg_text = <<>> /\ ai = <<>> /\ todo = <<>>
    /\ script = <<>> /\ luaOk = FALSE /\ err = "none"
    /\ raw = <<>> /\ did = "" /\ out = NoOut
    /\ appid \in AppIds
    /\ depots \in EmitDepots
    /\ keys \in [{depots[k].id : k \in 1..Len(depots)} -> {"KA", "KB"}]

WriteScript ==
    /\ pc = "input"
    /\ \E io \in BOOLEAN :
           LET w == write_lua(appid, depots, keys, io)
           IN  script' = w.lines /\ luaOk' = w.ok
    /\ pc' = "returned"
    /\ UNCHANGED <<runs, appid, cfg_text, ai, depots, keys, todo, err, raw,
                   did, out>>

NextEmit == WriteScript

SpecEmit == InitEmit /\ [][NextEmit]_vars

(***************************************************************************)
(* main (src/main.py 334-380): the run loop                                *)
(***************************************************************************)
MaxRuns == 2

Init ==
    /\ pc = "prompt"
    /\ runs = 0 /\ appid = "" /\ cfg_text = <<>>
    /\ ai = [depots |-> "absent", children |-> <<>>]
    /\ depots = <<>> /\ keys = EmptyMap /\ todo = <<>> /\ script = <<>>
    /\ luaOk = FALSE /\ err = "none"
    /\ raw = <<>> /\ did = "" /\ out = NoOut

\* Lines 355-360: the application id is read, the trust-store text and the
\* record are loaded, the candidate depots extracted and keys emptied.
\* extract_depots ends the process (pause_on_error) when there is no depots
\* map or no valid depot; its AttributeError is caught nowhere.
StartRun ==
    /\ pc = "prompt"
    /\ runs < MaxRuns
    /\ \E a \in AppIds, c \in RunCfgTexts, r \in RunRecords :
           LET ex == extract_depots(r)
           IN  /\ appid' = a
               /\ cfg_text' = c
               /\ ai' = r
               /\ runs' = runs + 1
               /\ script' = <<>>
               /\ luaOk' = FALSE
               /\ IF ex.status = "ok"
                  THEN /\ depots' = ex.result
                       /\ keys' = NewKeys(keys)
                       /\ todo' = DepotIds(ex.result)
                       /\ pc' = "resolve"
                       /\ err' = "none"
                  ELSE /\ pc' = IF ex.status = "AttributeError"
                                THEN "crashed" ELSE "exited"
                       /\ err' = ex.status
                       /\ UNCHANGED <<depots, keys, todo>>
    /\ UNCHANGED <<raw, did, out>>

\* Lines 361-365, one iteration: the key of the next depot is looked up; the
\* ValueError of a failed lookup is caught and the depot removed.
ResolveStep ==
    /\ pc = "resolve"
    /\ todo # <<>>
    /\ LET d == Head(todo)
           r == find_decryption_key(cfg_text, d)
       IN  IF r.status = "ok"
           THEN keys' = PutKey(keys, d, r.key) /\ UNCHANGED depots
           ELSE depots' = PopDepot(depots, d) /\ UNCHANGED keys
    /\ todo' = Tail(todo)
    /\ UNCHANGED <<pc, runs, appid, cfg_text, ai, script, luaOk, err, raw,
                   did, out>>

\* Lines 366-377: the script is written from what the loop left.  The output
\* directory and the copied manifests are not part of the state; io is
\* whether the script file could be written.
Emit ==
    /\ pc = "resolve"
    /\ todo = <<>>
    /\ \E io \in BOOLEAN :
           LET w == write_lua(appid, depots, keys, io)
           IN  script' = w.lines /\ luaOk' = w.ok
    /\ pc' = "again"
    /\ UNCHANGED <<runs, appid, cfg_text, ai, depots, keys, todo, err, raw,
                   did, out>>

\* Lines 378-380: "Run again?" answered y.
RunAgain ==
    /\ pc = "again"
    /\ pc' = "prompt"
    /\ UNCHANGED <<runs, appid, cfg_text, ai, depots, keys, todo, script,
                   luaOk, err, raw, did, out>>

\* Lines 378-380: any other answer.
Quit ==
    /\ pc = "again"
    /\ pc' = "done"
    /\ UNCHANGED <<runs, appid, cfg_text, ai, depots, keys, todo, script,
                   luaOk, err, raw, did, out>>

Next == StartRun \/ ResolveStep \/ Emit \/ RunAgain \/ Quit

Spec == Init /\ [][Next]_vars

(***************************************************************************)
(* Properties                                                              *)
(***************************************************************************)
\* Brace depth of s after its first j tokens.
Depth(s, j) ==
    Cardinality({i \in 1..j : s[i] = LB}) - Cardinality({i \in 1..j : s[i] = RB})

OnlyWsBetween(t, i, o) == \A j \in (i + 1)..(o - 1) : t[j].k = "ws"

\* C5: whenever isolation succeeds, the span is a contiguous piece of raw that
\* begins at the first occurrence of the quoted identifier, its running brace
\* depth never goes negative, is zero at the last token, and after an opening
\* brace has been seen is zero nowhere before the last token.
C5_SpanBalanced ==
    (pc = "returned" /\ out.status = "ok") =>
        LET k == Min({i \in 1..Len(raw) : raw[i] = Q(did)})
            s == out.span
        IN  /\ \E i \in 1..Len(raw) : raw[i] = Q(did)
            /\ \E e \in k..Len(raw) : s = Slice(raw, k, e)
            /\ \A j \in 1..Len(s) : Depth(s, j) >= 0
            /\ Depth(s, Len(s)) = 0
            /\ \A j \in 1..(Len(s) - 1) :
                   (\E i \in 1..j : s[i] = LB) => Depth(s, j) # 0

\* The first '{' at or after position k has a matching '}'.
HasMatchingClose(t, k) ==
    \E o \in k..Len(t) :
        /\ t[o] = LB
        /\ \A j \in k..(o - 1) : t[j] # LB
        /\ \E c \in (o + 1)..Len(t) : Depth(Slice(t, o, c), c - o + 1) = 0

\* C6: isolation fails with the record-not-found error when the quoted
\* identifier does not occur, and with the unbalanced-delimiter error when it
\* occurs but the first '{' after it has no matching '}' (or there is no '{'
\* after it); no span is returned in either case.
C6_IsolateFails ==
    pc = "returned" =>
        LET occ == {i \in 1..Len(raw) : raw[i] = Q(did)}
        IN  /\ occ = {} => (out.status = "NoSection" /\ out.span = <<>>)
            /\ (occ # {} /\ ~HasMatchingClose(raw, Min(occ)))
                   => (out.status = "Unmatched" /\ out.span = <<>>)

\* The heads "<d>" \s* { of blocks of depot d in t that some '}' follows.
BlockHeads(t, d) ==
    {h \in (1..Len(t)) \X (1..Len(t)) :
        /\ h[1] < h[2]
        /\ t[h[1]] = Q(d)
        /\ t[h[2]] = LB
        /\ OnlyWsBetween(t, h[1], h[2])
        /\ \E c \in (h[2] + 1)..Len(t) : t[c] = RB}

FirstHead(t, d) == CHOOSE h \in BlockHeads(t, d) : \A g \in BlockHeads(t, d) : h[1] <= g[1]

FirstClose(t, o) == Min({c \in (o + 1)..Len(t) : t[c] = RB})

\* The DecryptionKey entries strictly between positions o and c: the key token
\* and, after optional whitespace, its non-empty quoted value.
Entries(t, o, c) ==
    {e \in ((o + 1)..(c - 1)) \X ((o + 1)..(c - 1)) :
        /\ e[1] < e[2]
        /\ t[e[1]] = DK
        /\ OnlyWsBetween(t, e[1], e[2])
        /\ t[e[2]].k = "q" /\ t[e[2]].s # ""}

\* The outcome the claim describes for resolveKey(t, d).
ExpectedKey(t, d) ==
    IF BlockHeads(t, d) = {} THEN [status |-> "DepotMissing", key |-> "", pos |-> 0]
    ELSE LET o  == FirstHead(t, d)[2]
             es == Entries(t, o, FirstClose(t, o))
         IN  IF es = {} THEN [status |-> "KeyMissing", key |-> "", pos |-> 0]
             ELSE LET e == CHOOSE x \in es : \A y \in es : x[1] <= y[1]
                  IN  [status |-> "ok", key |-> t[e[2]].s, pos |-> e[2]]

\* Position p lies inside the first block of depot d.
InFirstBlockOf(t, d, p) ==
    /\ BlockHeads(t, d) # {}
    /\ LET o == FirstHead(t, d)[2]
       IN  o < p /\ p < FirstClose(t, o)

\* C8 (as amended): resolveKey looks only at the first block of the depot, the
\* text between the brace after the quoted id and the first closing brace
\* after it: it returns the first DecryptionKey value of that text, fails with
\* key-not-found when the text has none and with block-not-found when there is
\* no such block; the key it returns is always read from inside that text.
C8_FirstBlockOnly ==
    pc = "returned" =>
        /\ out = ExpectedKey(raw, did)
        /\ out.status = "ok" => InFirstBlockOf(raw, did, out.pos)

\* Position p lies inside a block of a different depot that opens within the
\* first block of depot d.
InNestedBlockOfOther(t, d, p) ==
    \E e \in {"1", "2"} \ {d} : \E h \in BlockHeads(t, e) :
        FirstHead(t, d)[2] < h[1] /\ h[2] < p

\* C8 (as claimed): the same, and the key is never read from inside the block
\* of a different depot.
C8_NeverOtherDepot ==
    pc = "returned" =>
        /\ out = ExpectedKey(raw, did)
        /\ out.status = "ok" => ~InNestedBlockOfOther(raw, did, out.pos)

\* A key is returned for a depot while a block of another depot, outside the
\* depot's own block, is in the text.
C8_Witness ==
    /\ pc = "returned"
    /\ out.status = "ok"
    /\ \E e \in {"1", "2"} \ {did} : \E h \in BlockHeads(raw, e) :
           h[1] > FirstClose(raw, FirstHead(raw, did)[2])

(***************************************************************************)
(* Properties of extraction, emission and the run loop                     *)
(***************************************************************************)
\* A child of the depots map that is a map with a non-empty string at
\* manifests.public.gid.
IsCandidate(c) ==
    /\ c.info.kind = "map"
    /\ c.info.manifests = "map"
    /\ c.info.public = "map"
    /\ c.info.gidKind = "str"
    /\ c.info.gid # ""

Candidates(a) == IF a.depots = "map" THEN SelectSeq(a.children, IsCandidate) ELSE <<>>

AsDepots(cs) == [k \in 1..Len(cs) |-> [id |-> cs[k].id, gid |-> cs[k].info.gid]]

Marked(c) == c.info.dlcappid \/ c.info.language

Resolves(t, d) == ExpectedKey(t, d).status = "ok"

\* The candidates of a whose key is found in t.
Resolving(a, t) == SelectSeq(Candidates(a), LAMBDA c : Resolves(t, c.id))

\* The depot ids of the key-registration lines and of the setManifestid lines
\* of a script, in line order.
KeyLineIds(sc) ==
    LET ls == SelectSeq(sc, LAMBDA l : l.stmt = "addappid" /\ Len(l.args) = 3)
    IN  [k \in 1..Len(ls) |-> ls[k].args[1]]

ManifestLineIds(sc) ==
    LET ls == SelectSeq(sc, LAMBDA l : l.stmt = "setManifestid")
    IN  [k \in 1..Len(ls) |-> ls[k].args[1]]

\* C1: when a candidate depot with neither marker has no key in the
\* trust-store (no block, or no DecryptionKey in it), the run aborts: no
\* script is ever written by such a run.
C1_MainlineKeyAborts ==
    (pc = "again" /\ luaOk) =>
        \A k \in 1..Len(Candidates(ai)) :
            LET c == Candidates(ai)[k]
            IN  Marked(c) \/ Resolves(cfg_text, c.id)

\* C2: the depot set handed to the emitter holds at least one depot; a run
\* whose candidates were all removed writes no script, and none that holds
\* only the application line.
C2_AtLeastOneDepot ==
    (pc = "again" /\ luaOk) => (Len(depots) >= 1 /\ Len(script) > 1)

\* Some candidate carries a marker and has no key in the trust-store.
MarkedFailure ==
    \E k \in 1..Len(Candidates(ai)) :
        Marked(Candidates(ai)[k]) /\ ~Resolves(cfg_text, Candidates(ai)[k].id)

\* C3: a marked candidate whose key resolution fails is dropped without
\* aborting: the loop goes on through the remaining candidates, and the
\* script written holds exactly the depots whose keys resolved.
C3_MarkedDropContinues ==
    MarkedFailure =>
        /\ pc = "resolve" =>
               LET cs == Candidates(ai)
                   n  == Len(cs) - Len(todo)
               IN  /\ err = "none"
                   /\ n >= 0
                   /\ todo = [k \in 1..Len(todo) |-> cs[n + k].id]
                   /\ depots =
                        AsDepots(SelectSeq(SubSeq(cs, 1, n),
                                           LAMBDA c : Resolves(cfg_text, c.id)))
                        \o AsDepots(SubSeq(cs, n + 1, Len(cs)))
        /\ pc = "again" =>
               /\ err = "none"
               /\ depots = AsDepots(Resolving(ai, cfg_text))
               /\ luaOk =>
                      /\ KeyLineIds(script) = DepotIds(AsDepots(Resolving(ai, cfg_text)))
                      /\ ManifestLineIds(script) = KeyLineIds(script)

\* A marked depot without a key came first and was dropped, and the script
\* was written with the depot after it.
C3_Witness ==
    /\ pc = "again"
    /\ luaOk
    /\ Len(Candidates(ai)) = 2
    /\ Marked(Candidates(ai)[1])
    /\ ~Resolves(cfg_text, Candidates(ai)[1].id)
    /\ KeyLineIds(script) = <<Candidates(ai)[2].id>>

\* C4: the script written for n depots has 1 + 2n lines, none blank: the
\* application line, then the key line of each depot in the mapping's order,
\* then the setManifestid line of each depot in the same order.
C4_ScriptShape ==
    (pc = "returned" /\ luaOk) =>
        LET n == Len(depots)
        IN  /\ Len(script) = 1 + 2 * n
            /\ script[1] = [stmt |-> "addappid", args |-> <<appid>>]
            /\ \A k \in 1..n :
                   /\ script[1 + k] =
                        [stmt |-> "addappid",
                         args |-> <<depots[k].id, "1", keys[depots[k].id]>>]
                   /\ script[1 + n + k] =
                        [stmt |-> "setManifestid",
                         args |-> <<depots[k].id, depots[k].gid>>]

\* A script for three depots whose ids are not in ascending order.
C4_Witness ==
    /\ pc = "returned"
    /\ luaOk
    /\ Len(depots) = 3
    /\ depots[1].id = "2" /\ depots[2].id = "3" /\ depots[3].id = "1"
    /\ Len(script) = 7

\* C7: for a record whose depots child is a map, the mapping returned holds
\* exactly the children that are maps with a non-empty string at
\* manifests.public.gid, each with that gid; any other child is left out
\* without failing the extraction.  (With no such child at all the
\* extraction ends with the no-valid-depots error.)
C7_ExtractFilters ==
    (pc = "returned" /\ raw.depots = "map") =>
        LET want == AsDepots(Candidates(raw))
        IN  \/ out.status = "ok" /\ want # <<>> /\ out.result = want
            \/ out.status = "NoValidDepots" /\ want = <<>>

\* C9: when the script is emitted, every depot of the final set has a key,
\* the non-empty key the trust-store text holds for that depot, and the key
\* mapping has no entry for any other depot; the key lines written carry
\* those keys.
C9_KeysFromTrustStore ==
    (pc = "again" \/ (pc = "resolve" /\ todo = <<>>)) =>
        /\ \A k \in 1..Len(depots) :
               LET d == depots[k].id
               IN  /\ d \in DOMAIN keys
                   /\ keys[d] # ""
                   /\ ExpectedKey(cfg_text, d).status = "ok"
                   /\ keys[d] = ExpectedKey(cfg_text, d).key
        /\ DOMAIN keys = {depots[k].id : k \in 1..Len(depots)}
        /\ (pc = "again" /\ luaOk) =>
               \A i \in 1..Len(script) :
                   Len(script[i].args) = 3 =>
                       /\ script[i].args[3] # ""
                       /\ script[i].args[3] = ExpectedKey(cfg_text, script[i].args[1]).key

\* A script was written with a keyed depot while another candidate, whose
\* block holds an empty key, was dropped.
C9_Witness ==
    /\ pc = "again"
    /\ luaOk
    /\ Len(depots) = 1
    /\ \E k \in 1..Len(Candidates(ai)) : \E i \in RunIds :
           /\ Candidates(ai)[k].id = IdNames[i]
           /\ \E p \in 1..Len(cfg_text) :
                  /\ p + 5 <= Len(cfg_text)
                  /\ SubSeq(cfg_text, p, p + 5) = <<Q(IdNames[i]), WS, LB, DK, WS, Q("")>>

\* C10: in every run, the first and each repeated one, the depot set, the
\* key mapping and the script are those of that run's own application id,
\* record and trust-store text; nothing is written before the run's loop is
\* through.
C10_RunsIndependent ==
    /\ pc = "resolve" => script = <<>>
    /\ pc = "again" =>
           LET ds == AsDepots(Resolving(ai, cfg_text))
               ks == [d \in {ds[k].id : k \in 1..Len(ds)} |-> ExpectedKey(cfg_text, d).key]
           IN  /\ depots = ds
               /\ keys = ks
               /\ luaOk =>
                      script = <<[stmt |-> "addappid", args |-> <<appid>>]>>
                               \o [k \in 1..Len(ds) |->
                                     [stmt |-> "addappid",
                                      args |-> <<ds[k].id, "1", ks[ds[k].id]>>]]
                               \o [k \in 1..Len(ds) |->
                                     [stmt |-> "setManifestid",
                                      args |-> <<ds[k].id, ds[k].gid>>]]

\* A repeated run wrote a script after dropping one of its candidates.
C10_Witness ==
    /\ pc = "again"
    /\ runs = 2
    /\ luaOk
    /\ Len(Candidates(ai)) = 2
    /\ Len(depots) = 1

====
